---- MODULE Spec2Model ----
(***************************************************************************)
(* FGCasterOverlay, src/controller.py: the roster-fetch job guarded by      *)
(* SCRAPER_LOCK (_run_char_scraper_for_slug) and the persisted document     *)
(* data.json behind DATA_LOCK (load_data / save_data and the handlers that  *)
(* use them).                                                                *)
(***************************************************************************)
EXTENDS Integers, Sequences, FiniteSets, TLC

\* ------------------------------------------------------------------ bounds
\* scraper threads that may be started (one per trigger)
MaxTriggers == 2
\* requests the workers serve in one run
MaxRequests == 2
\* write calls json.dump needs for one document
ChunksPerDoc == 2

\* ------------------------------------------------------------------ values
Threads == 1..MaxTriggers
NoThread == 0
\* game slugs a template's overlayGame tag may carry
Slugs == {"sf6", "t8"}
\* content of static/gamename.json when the file does not exist
Absent == "absent"
\* request-handling threads of the server
Workers == {1, 2}
NoWorker == 0

VARIABLES
    spc,                \* position of each scraper thread in _run_char_scraper_for_slug
    sslug,              \* the slug argument of each scraper thread
    SCRAPER_LOCK,       \* holder of SCRAPER_LOCK, NoThread when free
    CHAR_SCRAPER_STATE, \* the process-wide job state dict
    gamename_json,      \* slug stored in static/gamename.json, or Absent
    charfiles,          \* slugs whose characters_<slug>.json exists
    events,             \* socketio.emit calls, in order
    now,                \* time.time(), as a logical clock
    ran,                \* how often each thread entered the task body
    guardSeen,          \* what each thread's acquire found: "none" (not tried), "free", "held"
    inflight,           \* the threads that were in progress when each thread was started
    readSlug,           \* slug the running external scraper read from gamename.json
    lastExit            \* how the most recent task body ended

jobvars == <<spc, sslug, SCRAPER_LOCK, CHAR_SCRAPER_STATE, gamename_json,
             charfiles, events, now, ran,
             guardSeen, inflight, readSlug, lastExit>>

VARIABLES
    DATA_LOCK,          \* holder of DATA_LOCK, NoWorker when free
    data_json,          \* the file DATA_FILE
    data_tmp,           \* the file DATA_FILE + ".tmp"
    wop,                \* the handler each request worker is running, "idle" when none
    wpc,                \* the worker's position in its handler
    wio,                \* the worker's position in load_data / save_data
    ret,                \* what the worker's last load_data returned
    arg,                \* the document the worker's save_data is writing
    wrote,              \* chunks the worker's save_data has written
    attempt,            \* the attempt counter of the worker's load_data
    doc,                \* the handler's working document: new_data, cleared or data
    prev,               \* emit_data's prev
    upd,                \* save_data_preserving's update as it was passed
    cur,                \* save_data_preserving's current
    req,                \* the request's own input: template name, port, char_override
    wres,               \* the response of the worker's last request
    served,             \* requests accepted so far
    log                 \* the audit lines emit_data wrote with log.info, in order

storevars == <<DATA_LOCK, data_json, data_tmp, wop, wpc, wio, ret, arg, wrote,
               attempt, doc, prev, upd, cur, req, wres, served, log>>

vars == <<jobvars, storevars>>

\* ------------------------------------------------------------ job helpers
\* positions between SCRAPER_LOCK.acquire succeeding and SCRAPER_LOCK.release
BodyPcs == {"mark", "emit_start", "task_read", "task_fetch",
            "fin_state", "fin_emit", "fin_unlink", "release"}

ScriptExists == TRUE

LockAlwaysAvailable == TRUE

\* SCRAPER_LOCK.acquire(blocking=False) succeeds
LockAvailable == SCRAPER_LOCK = NoThread

FailedAcquireRunsAnyway == "mark"

FailedAcquireRunsFinally == "fin_state"

\* where a thread goes when the acquire fails
FailedAcquirePc == "drop_unlink"

ExitSkipsFinallyOnRaise(how) == IF how = "raise" THEN "done" ELSE "fin_state"

ExitSkipsFinallyOnFailure(how) == IF how = "nonzero" THEN "done" ELSE "fin_state"

\* where the task body leaves to: the finally clause, however it ended
TaskExitPc(how) == "fin_state"

UnlinkSkipped(f) == f

\* gamename_json.unlink(missing_ok=True): the file is gone
Unlink(f) == Absent

\* an emit that raises is swallowed (except: pass / log.error): the next statement runs
EmitFailedPc(next) == next

StatusAlwaysRunning(running, slug) ==
    [event |-> "charlist_status", running |-> TRUE, slug |-> slug]

\* the payload of socketio.emit("charlist_status", ...)
StatusEvent(running, slug) ==
    [event |-> "charlist_status", running |-> running, slug |-> slug]

JobInit ==
    /\ spc = [t \in Threads |-> "idle"]
    /\ sslug = [t \in Threads |-> ""]
    /\ SCRAPER_LOCK = NoThread
    /\ CHAR_SCRAPER_STATE = [running |-> FALSE, slug |-> "", started_at |-> 0]
    /\ gamename_json = Absent
    /\ charfiles \in {{}, {"sf6"}}
    /\ events = <<>>
    /\ now = 1
    /\ ran = [t \in Threads |-> 0]
    /\ guardSeen = [t \in Threads |-> "none"]
    /\ inflight = [t \in Threads |-> {}]
    /\ readSlug = [t \in Threads |-> ""]
    /\ lastExit = "none"

\* threading.Thread(target=_run_char_scraper_for_slug, args=(slug,)).start()
StartThread(slug) ==
    \E t \in Threads :
        /\ spc[t] = "idle"
        /\ \A u \in Threads : u < t => spc[u] # "idle"
        /\ spc' = [spc EXCEPT ![t] = "check"]
        /\ sslug' = [sslug EXCEPT ![t] = slug]
        /\ inflight' = [inflight EXCEPT ![t] =
                            {u \in Threads : spc[u] \notin {"idle", "done"}}]

\* ------------------------------------------------------------ job actions
\* a trigger fires (template switch or startup) for some slug
Trigger ==
    /\ \E slug \in Slugs : StartThread(slug)
    /\ UNCHANGED <<SCRAPER_LOCK, CHAR_SCRAPER_STATE, gamename_json, charfiles,
                   events, now, ran, guardSeen, readSlug, lastExit>>
    /\ UNCHANGED storevars

\* the early returns: no slug, or the script is missing
ScraperCheck(t) ==
    /\ spc[t] = "check"
    /\ spc' = [spc EXCEPT ![t] =
                  IF sslug[t] = "" \/ ~ScriptExists THEN "done" ELSE "write"]
    /\ UNCHANGED <<sslug, SCRAPER_LOCK, CHAR_SCRAPER_STATE, gamename_json,
                   charfiles, events, now, ran, guardSeen, inflight, readSlug, lastExit>>
    /\ UNCHANGED storevars

\* gamename_json.write_text(...); a failed write returns
WriteGamename(t) ==
    /\ spc[t] = "write"
    /\ \E ok \in BOOLEAN :
        IF ok
        THEN /\ gamename_json' = sslug[t]
             /\ spc' = [spc EXCEPT ![t] = "acquire"]
        ELSE /\ gamename_json' = gamename_json
             /\ spc' = [spc EXCEPT ![t] = "done"]
    /\ UNCHANGED <<sslug, SCRAPER_LOCK, CHAR_SCRAPER_STATE, charfiles, events,
                   now, ran, guardSeen, inflight, readSlug, lastExit>>
    /\ UNCHANGED storevars

\* if not SCRAPER_LOCK.acquire(blocking=False): ...
TryAcquire(t) ==
    /\ spc[t] = "acquire"
    /\ guardSeen' = [guardSeen EXCEPT ![t] = IF SCRAPER_LOCK = NoThread THEN "free" ELSE "held"]
    /\ IF LockAvailable
       THEN /\ SCRAPER_LOCK' = t
            /\ spc' = [spc EXCEPT ![t] = "mark"]
       ELSE /\ SCRAPER_LOCK' = SCRAPER_LOCK
            /\ spc' = [spc EXCEPT ![t] = FailedAcquirePc]
    /\ UNCHANGED <<sslug, CHAR_SCRAPER_STATE, gamename_json, charfiles, events,
                   now, ran, inflight, readSlug, lastExit>>
    /\ UNCHANGED storevars

\* the discarded trigger removes gamename.json and returns
DropUnlink(t) ==
    /\ spc[t] = "drop_unlink"
    /\ gamename_json' = Unlink(gamename_json)
    /\ spc' = [spc EXCEPT ![t] = "done"]
    /\ UNCHANGED <<sslug, SCRAPER_LOCK, CHAR_SCRAPER_STATE, charfiles, events,
                   now, ran, guardSeen, inflight, readSlug, lastExit>>
    /\ UNCHANGED storevars

\* CHAR_SCRAPER_STATE.update({"running": True, "slug": slug, "started_at": time.time()})
MarkRunning(t) ==
    /\ spc[t] = "mark"
    /\ CHAR_SCRAPER_STATE' =
           [running |-> TRUE, slug |-> sslug[t], started_at |-> now]
    /\ now' = now + 1
    /\ spc' = [spc EXCEPT ![t] = "emit_start"]
    /\ UNCHANGED <<sslug, SCRAPER_LOCK, gamename_json, charfiles, events, ran,
                   guardSeen, inflight, readSlug, lastExit>>
    /\ UNCHANGED storevars

\* socketio.emit("charlist_status", {"running": True, "slug": slug}), errors swallowed
EmitStarted(t) ==
    /\ spc[t] = "emit_start"
    /\ events' = Append(events, StatusEvent(TRUE, sslug[t]))
    /\ \E ok \in BOOLEAN :
           spc' = [spc EXCEPT ![t] = IF ok THEN "task_read" ELSE EmitFailedPc("task_read")]
    /\ UNCHANGED <<sslug, SCRAPER_LOCK, CHAR_SCRAPER_STATE, gamename_json,
                   charfiles, now, ran, guardSeen, inflight, readSlug, lastExit>>
    /\ UNCHANGED storevars

\* the task body starts: the scraper is launched and reads gamename.json
TaskRead(t) ==
    /\ spc[t] = "task_read"
    /\ ran' = [ran EXCEPT ![t] = @ + 1]
    /\ \E launched \in BOOLEAN :
        IF ~launched
        THEN /\ lastExit' = "raise"
             /\ spc' = [spc EXCEPT ![t] = TaskExitPc("raise")]
             /\ readSlug' = readSlug
        ELSE IF gamename_json = Absent
        THEN /\ lastExit' = "nonzero"
             /\ spc' = [spc EXCEPT ![t] = TaskExitPc("nonzero")]
             /\ readSlug' = readSlug
        ELSE /\ lastExit' = lastExit
             /\ spc' = [spc EXCEPT ![t] = "task_fetch"]
             /\ readSlug' = [readSlug EXCEPT ![t] = gamename_json]
    /\ UNCHANGED <<sslug, SCRAPER_LOCK, CHAR_SCRAPER_STATE, gamename_json,
                   charfiles, events, now, guardSeen, inflight>>
    /\ UNCHANGED storevars

\* the scraper fetches and writes characters_<slug it read>.json, or fails;
\* the controller then classifies the exit code and looks for its out_path
TaskFetch(t) ==
    /\ spc[t] = "task_fetch"
    /\ \E how \in {"ok", "nonzero", "raise"} :
        /\ charfiles' = IF how = "ok" THEN charfiles \cup {readSlug[t]} ELSE charfiles
        /\ lastExit' = IF how = "ok" /\ sslug[t] \notin charfiles' THEN "missing" ELSE how
        /\ readSlug' = [readSlug EXCEPT ![t] = ""]
        /\ spc' = [spc EXCEPT ![t] = TaskExitPc(how)]
    /\ UNCHANGED <<sslug, SCRAPER_LOCK, CHAR_SCRAPER_STATE, gamename_json, events,
                   now, ran, guardSeen, inflight>>
    /\ UNCHANGED storevars

\* finally: CHAR_SCRAPER_STATE.update({"running": False})
FinState(t) ==
    /\ spc[t] = "fin_state"
    /\ CHAR_SCRAPER_STATE' = [CHAR_SCRAPER_STATE EXCEPT !.running = FALSE]
    /\ spc' = [spc EXCEPT ![t] = "fin_emit"]
    /\ UNCHANGED <<sslug, SCRAPER_LOCK, gamename_json, charfiles, events, now,
                   ran, guardSeen, inflight, readSlug, lastExit>>
    /\ UNCHANGED storevars

\* socketio.emit("charlist_status", {"running": False, "slug": slug}), errors logged
FinEmit(t) ==
    /\ spc[t] = "fin_emit"
    /\ events' = Append(events, StatusEvent(FALSE, sslug[t]))
    /\ \E ok \in BOOLEAN :
           spc' = [spc EXCEPT ![t] = IF ok THEN "fin_unlink" ELSE EmitFailedPc("fin_unlink")]
    /\ UNCHANGED <<sslug, SCRAPER_LOCK, CHAR_SCRAPER_STATE, gamename_json,
                   charfiles, now, ran, guardSeen, inflight, readSlug, lastExit>>
    /\ UNCHANGED storevars

\* gamename_json.unlink(missing_ok=True)
FinUnlink(t) ==
    /\ spc[t] = "fin_unlink"
    /\ gamename_json' = Unlink(gamename_json)
    /\ spc' = [spc EXCEPT ![t] = "release"]
    /\ UNCHANGED <<sslug, SCRAPER_LOCK, CHAR_SCRAPER_STATE, charfiles, events,
                   now, ran, guardSeen, inflight, readSlug, lastExit>>
    /\ UNCHANGED storevars

\* SCRAPER_LOCK.release()
Release(t) ==
    /\ spc[t] = "release"
    /\ SCRAPER_LOCK' = NoThread
    /\ spc' = [spc EXCEPT ![t] = "done"]
    /\ UNCHANGED <<sslug, CHAR_SCRAPER_STATE, gamename_json, charfiles, events,
                   now, ran, guardSeen, inflight, readSlug, lastExit>>
    /\ UNCHANGED storevars

\* ------------------------------------------------------------ documents
\* a document is a function from its keys to their values
EmptyDoc == [k \in {} |-> 0]

Has(d, k) == k \in DOMAIN d

\* d[k] = v
Put(d, k, v) == [x \in DOMAIN d \cup {k} |-> IF x = k THEN v ELSE d[x]]

\* d.pop(k, None)
Pop(d, k) == [x \in DOMAIN d \ {k} |-> d[x]]

\* d.get(k, default)
Get(d, k, default) == IF Has(d, k) THEN d[k] ELSE default

PRESERVE_KEYS == <<"port", "active_template">>

\* json.dump writes the document in ChunksPerDoc pieces
Serialize(d) == [i \in 1..ChunksPerDoc |-> [doc |-> d, part |-> i]]

\* a file: whether it exists, and the pieces written to it
NoFile == [exists |-> FALSE, data |-> <<>>]

File(pieces) == [exists |-> TRUE, data |-> pieces]

\* the bytes of a gap left by a write past the end of a file
Hole == [doc |-> EmptyDoc, part |-> 0]

\* bytes that are not text in the encoding open(DATA_FILE, 'r') decodes with
Undecodable == [doc |-> EmptyDoc, part |-> -1]

\* f.read() inside json.load decodes the file; it raises UnicodeDecodeError otherwise
Decodable(f) == \A i \in 1..Len(f.data) : f.data[i] # Undecodable

\* json.load succeeds on the pieces of one document, all of them and in order
WellFormed(f) ==
    /\ f.exists
    /\ Len(f.data) = ChunksPerDoc
    /\ \A i \in 1..Len(f.data) : f.data[i].part = i /\ f.data[i].doc = f.data[1].doc

Parse(f) == f.data[1].doc

\* a write of piece i at file offset i; a file opened for writing by someone
\* else in between was truncated, and the gap reads as a hole
WriteAt(f, i, piece) ==
    IF ~f.exists THEN f
    ELSE File([j \in 1..(IF Len(f.data) > i THEN Len(f.data) ELSE i) |->
                  IF j = i THEN piece ELSE IF j <= Len(f.data) THEN f.data[j] ELSE Hole])

\* ------------------------------------------------------------ the diff
\* None, the value of dict.get for a missing key and of a JSON null
None == "<None>"

\* a value that is not a dict where a section is expected, e.g. "player1": "x"
Scalar(v) == "$value" :> v

\* isinstance(v, dict)
IsDict(v) == "$value" \notin DOMAIN v

\* a text is the sequence of its pieces; the empty string is the empty sequence
Text(piece) == <<piece>>

\* sep.join(texts)
RECURSIVE Join(_, _)
Join(texts, sep) ==
    IF texts = <<>> THEN <<>>
    ELSE IF Len(texts) = 1 THEN texts[1]
    ELSE texts[1] \o Text(sep) \o Join(Tail(texts), sep)

\* [t for t in texts if t]
NonEmpty(texts) == SelectSeq(texts, LAMBDA t : t # <<>>)

\* _short(v): empty and None read "None", a path reads as its basename
Short(v) ==
    IF v = None \/ v = "" THEN "[bright_black]None[/bright_black]"
    ELSE IF v = "img/ryu.png" THEN "ryu.png"
    ELSE v

FmtChangeShortened(label, old, new) ==
    IF Short(old) = Short(new) THEN <<>>
    ELSE <<label, Short(old), "->", Short(new)>>

\* _fmt_change(label, old, new)
FmtChange(label, old, new) ==
    IF old = new THEN <<>>
    ELSE <<label, Short(old), "->", Short(new)>>

\* the fields lists _diff_payload passes to _diff_section
PlayerFields == <<[key |-> "name", label |-> "Name"], [key |-> "id", label |-> "ID"],
                  [key |-> "clan", label |-> "Clan Tag"], [key |-> "wl", label |-> "W/L"],
                  [key |-> "score", label |-> "Score"],
                  [key |-> "character", label |-> "Character"],
                  [key |-> "img", label |-> "Img"]>>

TeamFields == <<[key |-> "name", label |-> "Name"], [key |-> "score", label |-> "Score"],
                [key |-> "img", label |-> "Img"]>>

CasterFields == <<[key |-> "name", label |-> "Name"], [key |-> "twitch", label |-> "Twitch"],
                  [key |-> "twitter", label |-> "Twitter"]>>

\* _diff_section(title, prev, curr, fields)
DiffSection(title, prevSec, currSec, fields) ==
    LET p == IF IsDict(prevSec) THEN prevSec ELSE EmptyDoc
        c == IF IsDict(currSec) THEN currSec ELSE EmptyDoc
        parts == NonEmpty([i \in 1..Len(fields) |->
                     FmtChange(fields[i].label \o ":",
                               Get(p, fields[i].key, None), Get(c, fields[i].key, None))])
    IN  IF parts = <<>> THEN <<>>
        ELSE Text("[yellow]" \o title \o "[/yellow]") \o Join(parts, ",")

\* _diff_scalar(label, prev, curr)
DiffScalar(label, prevVal, currVal) == FmtChange(label \o ":", prevVal, currVal)

\* lines.append(text) when the text is not empty
AppendIf(lines, text) == IF text # <<>> THEN Append(lines, text) ELSE lines

\* _diff_payload(prev, curr)
DiffPayload(prevDoc, currDoc) ==
    LET Sec(title, key, fields) ==
            DiffSection(title, Get(prevDoc, key, EmptyDoc), Get(currDoc, key, EmptyDoc), fields)
        Sca(label, key) ==
            DiffScalar(label, Get(prevDoc, key, None), Get(currDoc, key, None))
        l1 == <<Sec("Player 1", "player1", PlayerFields),
                Sec("Player 2", "player2", PlayerFields),
                Sec("Team 1", "team1", TeamFields),
                Sec("Team 2", "team2", TeamFields)>>
        l2 == AppendIf(l1, Sca("Event Stage", "stage"))
        l3 == AppendIf(l2, Sca("Match Type", "match_type"))
        l4 == AppendIf(l3, Sca("Top Text", "toptext"))
        l5 == l4 \o <<Sec("Caster 1", "caster1", CasterFields),
                      Sec("Caster 2", "caster2", CasterFields)>>
        l6 == AppendIf(l5, Sca("UI scale", "ui_scale"))
        l7 == AppendIf(l6, Sca("Active template", "active_template"))
    IN  Join(NonEmpty(l7), "*")

\* x or {}: an empty dict, an empty string and None are falsy
Truthy(v) == v # EmptyDoc /\ v # Scalar("") /\ v # Scalar(None)

\* prev.get / curr.get raise AttributeError when prev or curr, after "or {}",
\* is not a dict (data.json holding a JSON list or string)
DiffRaises(prevDoc, currDoc) ==
    \/ Truthy(prevDoc) /\ ~IsDict(prevDoc)
    \/ Truthy(currDoc) /\ ~IsDict(currDoc)

\* the sections _summarize_payload calls .get on: (data.get(key, {}) or {})
SummarySection(data, key) ==
    IF Truthy(Get(data, key, EmptyDoc)) THEN data[key] ELSE EmptyDoc

\* _summarize_payload raises AttributeError on p1.get / t1.get when a section
\* it reads is a truthy value that is not a dict
SummarizeRaises(data) ==
    \/ \E key \in {"player1", "player2"} : ~IsDict(SummarySection(data, key))
    \/ \E key \in {"team1", "team2"} : ~IsDict(SummarySection(data, key))

\* _summarize_payload(data), the fallback audit text
SummarizePayload(data) ==
    IF ~IsDict(data) THEN Text("[dim]Payload not a dict[/dim]")
    ELSE
    LET p1 == SummarySection(data, "player1")
        p2 == SummarySection(data, "player2")
        t1 == SummarySection(data, "team1")
        t2 == SummarySection(data, "team2")
        Name(sec) == IF Get(sec, "name", None) \in {None, ""} THEN "None" ELSE sec["name"]
        players == IF p1 # EmptyDoc \/ p2 # EmptyDoc
                   THEN << <<"Players:", Name(p1), Get(p1, "score", "0"), "vs",
                             Name(p2), Get(p2, "score", "0")>> >>
                   ELSE <<>>
        teams == IF t1 # EmptyDoc \/ t2 # EmptyDoc
                 THEN << <<"Teams:", Name(t1), Get(t1, "score", "0"), "vs",
                           Name(t2), Get(t2, "score", "0")>> >>
                 ELSE <<>>
        Meta(label, key) == IF Get(data, key, "") \notin {None, ""}
                            THEN << <<label, data[key]>> >> ELSE <<>>
        parts == players \o teams \o Meta("Event Stage:", "stage")
                     \o Meta("Match Type:", "match_type") \o Meta("Top text:", "toptext")
    IN  IF parts = <<>> THEN Text("[dim]Empty scoreboard state[/dim]")
        ELSE Join(parts, "*")

\* the audit line emit_data logs for a diff, and the one of its except branch
AuditLine(text) == Text("Broadcast update") \o text

FallbackLine(text) == Text("Broadcast update") \o text \o Text("(diff error)")

\* ------------------------------------------------------------ environment
\* folders under templates/, and those of them that hold a template.html
TemplateFolders == {"default", "sf6", "bare"}
TemplateHtml == {"default", "sf6"}

IsDirUnchecked(name) == TRUE

\* os.path.isdir(os.path.join(TEMPLATES_ROOT, name)): the empty name is the root itself
IsDir(name) == name = "" \/ name \in TemplateFolders

\* _extract_game_from_template(name) or ""
GameOf(name) == IF name = "sf6" THEN "sf6" ELSE ""

\* _charlist_exists(slug)
CharlistExists(slug) == slug \in charfiles

DefaultPort == 8008

\* _validate_port(value): the value if it is a port, else the default
ValidatePort(value) == IF 1 <= value /\ value <= 65535 THEN value ELSE DefaultPort

\* ------------------------------------------------------------ inputs
\* documents data.json may hold when the server starts serving
InitDocs == {[port |-> 8008, active_template |-> "default", player1 |-> [name |-> "Bob"],
              team1 |-> [name |-> "Red"], ui_scale |-> "1.0"]}

\* documents the controller UI posts to /emit
Fragments == {[player1 |-> [name |-> "Alice"]],
              [player1 |-> [name |-> "Bob"], port |-> 1234, active_template |-> "sf6"]}

\* template names posted to /set-template
TemplateInputs == {"sf6", "ghost", "bare", ""}

\* ports posted to /config/port; 0 is what payload.get("port", 0) gives when
\* the payload has none
PortInputs == {9000, 0, 70000}

\* whether the /set-template payload carries char_override
OverrideInputs == {"unset", "true"}

\* the cleared sections the resets write; the score 0 as its text
ClearedPlayer == [name |-> "", id |-> "", clan |-> "", wl |-> "", score |-> "0",
                  character |-> "", img |-> ""]

ClearedTeam == [name |-> "", score |-> "0", img |-> ""]

ClearedCaster == [name |-> "", twitch |-> "", twitter |-> ""]

\* subscriber roles _infer_role_from_headers tells apart
Roles == {"overlay", "controller", "unknown"}

\* a worker's request when it serves none: the template name, port and
\* char_override of the payload, the JSON body of /emit, the role and sid of a connect
NoRequest == [name |-> "", port |-> 0, override |-> "unset", body |-> EmptyDoc,
              role |-> "unknown", sid |-> 0]

\* ------------------------------------------------------------ StateStore
DataLockIgnored == TRUE

\* with DATA_LOCK: the lock can be taken
DataLockAvailable == DATA_LOCK = NoWorker

\* tmp = DATA_FILE + ".tmp" is complete: json.dump, flush and fsync are done
TmpComplete(w) == wrote[w] = ChunksPerDoc

\* no request is being served, nothing was logged
StoreIdle ==
    /\ DATA_LOCK = NoWorker
    /\ data_tmp = NoFile
    /\ wop = [w \in Workers |-> "idle"]
    /\ wpc = [w \in Workers |-> "idle"]
    /\ wio = [w \in Workers |-> "none"]
    /\ ret = [w \in Workers |-> EmptyDoc]
    /\ arg = [w \in Workers |-> EmptyDoc]
    /\ wrote = [w \in Workers |-> 0]
    /\ attempt = [w \in Workers |-> 0]
    /\ doc = [w \in Workers |-> EmptyDoc]
    /\ prev = [w \in Workers |-> EmptyDoc]
    /\ upd = [w \in Workers |-> EmptyDoc]
    /\ cur = [w \in Workers |-> EmptyDoc]
    /\ req = [w \in Workers |-> NoRequest]
    /\ wres = [w \in Workers |-> "none"]
    /\ served = 0
    /\ log = <<>>

\* the server as __main__ starts it: ensure_port_in_data and ensure_active_template
\* have stored a document with port and active_template
StoreInit ==
    /\ StoreIdle
    /\ data_json \in {File(Serialize(d)) : d \in InitDocs}

\* the worker calls load_data()
CallLoad(w) ==
    /\ wio' = [wio EXCEPT ![w] = "ld_exists"]
    /\ ret' = [ret EXCEPT ![w] = EmptyDoc]
    /\ arg' = [arg EXCEPT ![w] = EmptyDoc]
    /\ wrote' = [wrote EXCEPT ![w] = 0]
    /\ attempt' = [attempt EXCEPT ![w] = 0]

\* the worker calls save_data(d)
CallSave(w, d) ==
    /\ wio' = [wio EXCEPT ![w] = "sv_open"]
    /\ ret' = [ret EXCEPT ![w] = EmptyDoc]
    /\ arg' = [arg EXCEPT ![w] = d]
    /\ wrote' = [wrote EXCEPT ![w] = 0]
    /\ attempt' = [attempt EXCEPT ![w] = 0]

\* the worker is in no StateStore call after this step
NoCall(w) ==
    /\ wio' = [wio EXCEPT ![w] = "none"]
    /\ ret' = [ret EXCEPT ![w] = EmptyDoc]
    /\ arg' = [arg EXCEPT ![w] = EmptyDoc]
    /\ wrote' = [wrote EXCEPT ![w] = 0]
    /\ attempt' = [attempt EXCEPT ![w] = 0]

handlerlocals == <<wop, wpc, doc, prev, upd, cur, req, wres, served, log>>

\* load_data: if not os.path.exists(DATA_FILE): return {}
LoadExists(w) ==
    /\ wio[w] = "ld_exists"
    /\ IF ~data_json.exists
       THEN /\ ret' = [ret EXCEPT ![w] = EmptyDoc]
            /\ wio' = [wio EXCEPT ![w] = "ret"]
       ELSE /\ ret' = ret
            /\ wio' = [wio EXCEPT ![w] = "ld_read"]
    /\ UNCHANGED <<DATA_LOCK, data_json, data_tmp, arg, wrote, attempt>>
    /\ UNCHANGED handlerlocals
    /\ UNCHANGED jobvars

MaxAttempts == 3

\* load_data: one attempt of the retry loop, under DATA_LOCK. json.JSONDecodeError
\* and OSError are caught and the attempt is repeated; after the last failed
\* attempt the empty document is returned. UnicodeDecodeError is neither: it
\* leaves load_data.
LoadRead(w) ==
    /\ wio[w] = "ld_read"
    /\ DataLockAvailable
    /\ IF WellFormed(data_json)
       THEN /\ ret' = [ret EXCEPT ![w] = Parse(data_json)]
            /\ wio' = [wio EXCEPT ![w] = "ret"]
            /\ attempt' = attempt
       ELSE IF data_json.exists /\ ~Decodable(data_json)
       THEN /\ ret' = ret
            /\ wio' = [wio EXCEPT ![w] = "raised"]
            /\ attempt' = attempt
       ELSE IF attempt[w] + 1 < MaxAttempts
       THEN /\ ret' = ret
            /\ wio' = wio
            /\ attempt' = [attempt EXCEPT ![w] = @ + 1]
       ELSE /\ ret' = [ret EXCEPT ![w] = EmptyDoc]
            /\ wio' = [wio EXCEPT ![w] = "ret"]
            /\ attempt' = [attempt EXCEPT ![w] = @ + 1]
    /\ UNCHANGED <<DATA_LOCK, data_json, data_tmp, arg, wrote>>
    /\ UNCHANGED handlerlocals
    /\ UNCHANGED jobvars

\* load_data: open(DATA_FILE) raises OSError in one attempt of the retry loop (the
\* sharing violation its except clause names, or any other failure of the open);
\* the attempt is repeated, and after the last one the empty document is returned
LoadReadFails(w) ==
    /\ wio[w] = "ld_read"
    /\ DataLockAvailable
    /\ data_json.exists
    /\ attempt' = [attempt EXCEPT ![w] = @ + 1]
    /\ IF attempt[w] + 1 < MaxAttempts
       THEN /\ ret' = ret
            /\ wio' = wio
       ELSE /\ ret' = [ret EXCEPT ![w] = EmptyDoc]
            /\ wio' = [wio EXCEPT ![w] = "ret"]
    /\ UNCHANGED <<DATA_LOCK, data_json, data_tmp, arg, wrote>>
    /\ UNCHANGED handlerlocals
    /\ UNCHANGED jobvars

\* save_data: with DATA_LOCK: with open(tmp, 'w') as f:
SaveOpen(w) ==
    /\ wio[w] = "sv_open"
    /\ DataLockAvailable
    /\ DATA_LOCK' = w
    /\ data_tmp' = File(<<>>)
    /\ wio' = [wio EXCEPT ![w] = "sv_write"]
    /\ UNCHANGED <<data_json, ret, arg, wrote, attempt>>
    /\ UNCHANGED handlerlocals
    /\ UNCHANGED jobvars

\* save_data: json.dump(data, f, indent=2), one write at a time
SaveWrite(w) ==
    /\ wio[w] = "sv_write"
    /\ ~TmpComplete(w)
    /\ data_tmp' = WriteAt(data_tmp, wrote[w] + 1, Serialize(arg[w])[wrote[w] + 1])
    /\ wrote' = [wrote EXCEPT ![w] = @ + 1]
    /\ UNCHANGED <<DATA_LOCK, data_json, wio, ret, arg, attempt>>
    /\ UNCHANGED handlerlocals
    /\ UNCHANGED jobvars

\* save_data: os.replace(tmp, DATA_FILE), then DATA_LOCK is released
SaveReplace(w) ==
    /\ wio[w] = "sv_write"
    /\ TmpComplete(w)
    /\ data_json' = IF data_tmp.exists THEN data_tmp ELSE data_json
    /\ data_tmp' = NoFile
    /\ DATA_LOCK' = NoWorker
    /\ wio' = [wio EXCEPT ![w] = "saved"]
    /\ UNCHANGED <<ret, arg, wrote, attempt>>
    /\ UNCHANGED handlerlocals
    /\ UNCHANGED jobvars

\* ------------------------------------------------------------ handlers
jobrest == <<spc, sslug, SCRAPER_LOCK, CHAR_SCRAPER_STATE, gamename_json,
             charfiles, now, ran, guardSeen, inflight, readSlug, lastExit>>

filevars == <<DATA_LOCK, data_json, data_tmp>>

\* the handler moves on to position pc
Goto(w, op, pc) ==
    /\ wop' = [wop EXCEPT ![w] = op]
    /\ wpc' = [wpc EXCEPT ![w] = pc]
    /\ wres' = wres

\* the handler's locals after the step: its working document, prev,
\* save_data_preserving's update and current, and the request
Locals(w, d, p, u, c, r) ==
    /\ doc' = [doc EXCEPT ![w] = d]
    /\ prev' = [prev EXCEPT ![w] = p]
    /\ upd' = [upd EXCEPT ![w] = u]
    /\ cur' = [cur EXCEPT ![w] = c]
    /\ req' = [req EXCEPT ![w] = r]

\* the handler returns its response; its locals are gone
Respond(w, res) ==
    /\ wop' = [wop EXCEPT ![w] = "idle"]
    /\ wpc' = [wpc EXCEPT ![w] = "idle"]
    /\ wres' = [wres EXCEPT ![w] = res]
    /\ Locals(w, EmptyDoc, EmptyDoc, EmptyDoc, EmptyDoc, NoRequest)
    /\ NoCall(w)

\* a worker is free to take the next request
Accepts(w) ==
    /\ wop[w] = "idle"
    /\ served < MaxRequests
    /\ served' = served + 1

\* sanitize_incoming: update.pop("active_template", None)
SanitizeIncoming(update) == Pop(update, "active_template")

PreserveOnlyMissing(update, current, k) ==
    IF Has(current, k) /\ ~Has(update, k) THEN Put(update, k, current[k]) ELSE update

\* save_data_preserving: if k in current: update[k] = current[k]
PreserveKey(update, current, k) ==
    IF Has(current, k) THEN Put(update, k, current[k]) ELSE update

PreserveByMerging(update, current) ==
    PreserveKey(PreserveKey(update, current, "port"), current, "active_template") @@ current

\* save_data_preserving: the loop over preserve_keys
PreserveMerge(update, current) ==
    PreserveKey(PreserveKey(update, current, PRESERVE_KEYS[1]), current, PRESERVE_KEYS[2])

UpdateEvent(d) == [event |-> "update_scoreboard", doc |-> d]

TemplateEvent(name) == [event |-> "template_changed", template |-> name]

\* /emit: new_data = request.get_json(); sanitize_incoming(new_data); prev = load_data()
EmitData(w) ==
    /\ Accepts(w)
    /\ \E frag \in Fragments :
           Locals(w, SanitizeIncoming(frag), EmptyDoc, EmptyDoc, EmptyDoc,
                  [NoRequest EXCEPT !.body = frag])
    /\ Goto(w, "emit", "emit_prev")
    /\ CallLoad(w)
    /\ UNCHANGED <<events, log, filevars, jobrest>>

\* /emit: prev is bound, save_data_preserving(new_data) starts with its load_data()
EmitGotPrev(w) ==
    /\ wpc[w] = "emit_prev"
    /\ wio[w] = "ret"
    /\ Locals(w, doc[w], ret[w], upd[w], cur[w], req[w])
    /\ Goto(w, wop[w], "sdp_current")
    /\ CallLoad(w)
    /\ UNCHANGED <<served, events, log, filevars, jobrest>>

\* save_data_preserving: current is bound, the preserved keys are copied into
\* update, save_data(update) is called
SdpGotCurrent(w) ==
    /\ wpc[w] = "sdp_current"
    /\ wio[w] = "ret"
    /\ Locals(w, PreserveMerge(doc[w], ret[w]), prev[w], doc[w], ret[w], req[w])
    /\ Goto(w, wop[w], "sdp_save")
    /\ CallSave(w, PreserveMerge(doc[w], ret[w]))
    /\ UNCHANGED <<served, events, log, filevars, jobrest>>

BroadcastAsPassed(w) == upd[w]

\* the object emit_data and the resets hand to socketio.emit: the dict that
\* save_data_preserving updated in place
BroadcastDoc(w) == doc[w]

\* socketio.emit('update_scoreboard', ...) after save_data_preserving; the resets
\* then respond, emit_data goes on to its diff
Broadcast(w) ==
    /\ wpc[w] = "sdp_save"
    /\ wio[w] = "saved"
    /\ events' = Append(events, UpdateEvent(BroadcastDoc(w)))
    /\ IF wop[w] = "emit"
       THEN /\ Goto(w, wop[w], "emit_diff")
            /\ NoCall(w)
            /\ UNCHANGED <<doc, prev, upd, cur, req>>
       ELSE Respond(w, "ok")
    /\ UNCHANGED <<served, log, filevars, jobrest>>

\* emit_data: diff = _diff_payload(prev, new_data), logged when not empty; when
\* it raises, the except branch logs _summarize_payload(new_data) instead, and an
\* exception raised there leaves the handler; then jsonify(success=True)
EmitDiff(w) ==
    /\ wpc[w] = "emit_diff"
    /\ IF ~DiffRaises(prev[w], doc[w])
       THEN /\ log' = IF DiffPayload(prev[w], doc[w]) # <<>>
                      THEN Append(log, AuditLine(DiffPayload(prev[w], doc[w])))
                      ELSE log
            /\ Respond(w, "ok")
       ELSE IF ~SummarizeRaises(doc[w])
       THEN /\ log' = Append(log, FallbackLine(SummarizePayload(doc[w])))
            /\ Respond(w, "ok")
       ELSE /\ log' = log
            /\ Respond(w, "error")
    /\ UNCHANGED <<served, events, filevars, jobrest>>

ResetKinds == {"reset_players", "reset_teams", "reset_all"}

ClearedFresh(kind, current) == [player1 |-> ClearedPlayer, player2 |-> ClearedPlayer]

\* the cleared payload each reset builds from current
Cleared(kind, current) ==
    IF kind = "reset_players"
    THEN Put(Put(current, "player1", ClearedPlayer), "player2", ClearedPlayer)
    ELSE IF kind = "reset_teams"
    THEN Put(Put(current, "team1", ClearedTeam), "team2", ClearedTeam)
    ELSE LET base == [player1 |-> ClearedPlayer, player2 |-> ClearedPlayer,
                      team1 |-> ClearedTeam, team2 |-> ClearedTeam,
                      stage |-> "", match_type |-> "", toptext |-> "",
                      caster1 |-> ClearedCaster, caster2 |-> ClearedCaster]
             withScale == IF Has(current, "ui_scale")
                          THEN Put(base, "ui_scale", current["ui_scale"]) ELSE base
         IN  IF Has(current, "char_override")
             THEN Put(withScale, "char_override", current["char_override"])
             ELSE withScale

\* /reset/players, /reset/teams, /reset/all: current = load_data()
ResetStart(w) ==
    /\ Accepts(w)
    /\ \E kind \in ResetKinds : Goto(w, kind, "reset_current")
    /\ Locals(w, EmptyDoc, EmptyDoc, EmptyDoc, EmptyDoc, NoRequest)
    /\ CallLoad(w)
    /\ UNCHANGED <<events, log, filevars, jobrest>>

\* the reset keeps what it loaded as current, builds cleared and calls
\* save_data_preserving(cleared)
ResetGotCurrent(w) ==
    /\ wpc[w] = "reset_current"
    /\ wio[w] = "ret"
    /\ Locals(w, Cleared(wop[w], ret[w]), ret[w], upd[w], cur[w], req[w])
    /\ Goto(w, wop[w], "sdp_current")
    /\ CallLoad(w)
    /\ UNCHANGED <<served, events, log, filevars, jobrest>>

\* /config/port: new_port = _validate_port(payload.get("port", 0)); data = load_data()
SetPort(w) ==
    /\ Accepts(w)
    /\ \E p \in PortInputs :
           Locals(w, EmptyDoc, EmptyDoc, EmptyDoc, EmptyDoc, [NoRequest EXCEPT !.port = p])
    /\ Goto(w, "set_port", "port_data")
    /\ CallLoad(w)
    /\ UNCHANGED <<events, log, filevars, jobrest>>

\* /config/port: an unchanged port returns, a new one is stored with save_data(data)
PortGotData(w) ==
    /\ wpc[w] = "port_data"
    /\ wio[w] = "ret"
    /\ LET new_port == ValidatePort(req[w].port)
           old_port == ValidatePort(Get(ret[w], "port", DefaultPort))
       IN  IF new_port = old_port
           THEN Respond(w, "unchanged")
           ELSE /\ Locals(w, Put(ret[w], "port", new_port), prev[w], upd[w], cur[w], req[w])
                /\ Goto(w, wop[w], "port_save")
                /\ CallSave(w, Put(ret[w], "port", new_port))
    /\ UNCHANGED <<served, events, log, filevars, jobrest>>

\* /config/port: the response after save_data, "Port saved. Restart app to apply."
PortSaved(w) ==
    /\ wpc[w] = "port_save"
    /\ wio[w] = "saved"
    /\ Respond(w, "saved")
    /\ UNCHANGED <<served, events, log, filevars, jobrest>>

\* /set-template: name = (payload.get("template") or "").strip()
SetTemplate(w) ==
    /\ Accepts(w)
    /\ Cardinality({t \in Threads : spc[t] = "idle"})
           > Cardinality({x \in Workers : wop[x] = "set_template"})
    /\ \E name \in TemplateInputs, ov \in OverrideInputs :
           Locals(w, EmptyDoc, EmptyDoc, EmptyDoc, EmptyDoc,
                  [NoRequest EXCEPT !.name = name, !.override = ov])
    /\ Goto(w, "set_template", "sat_check")
    /\ NoCall(w)
    /\ UNCHANGED <<events, log, filevars, jobrest>>

\* set_active_template: a missing folder raises ValueError, which ends the
\* request with an error response; else data = load_data()
SatCheck(w) ==
    /\ wpc[w] = "sat_check"
    /\ IF ~IsDir(req[w].name)
       THEN Respond(w, "error")
       ELSE /\ Goto(w, wop[w], "sat_data")
            /\ CallLoad(w)
            /\ UNCHANGED <<doc, prev, upd, cur, req>>
    /\ UNCHANGED <<served, events, log, filevars, jobrest>>

\* set_active_template: data["active_template"] = name; save_data(data)
SatGotData(w) ==
    /\ wpc[w] = "sat_data"
    /\ wio[w] = "ret"
    /\ Locals(w, Put(ret[w], "active_template", req[w].name), prev[w], upd[w], cur[w], req[w])
    /\ Goto(w, wop[w], "sat_save")
    /\ CallSave(w, Put(ret[w], "active_template", req[w].name))
    /\ UNCHANGED <<served, events, log, filevars, jobrest>>

\* set_template: data = load_data()
SatSaved(w) ==
    /\ wpc[w] = "sat_save"
    /\ wio[w] = "saved"
    /\ Locals(w, EmptyDoc, prev[w], upd[w], cur[w], req[w])
    /\ Goto(w, wop[w], "tpl_data")
    /\ CallLoad(w)
    /\ UNCHANGED <<served, events, log, filevars, jobrest>>

\* set_template's data: active_template set, char_override set when the payload has it
TemplateData(loaded, r) ==
    LET named == Put(loaded, "active_template", r.name)
    IN  IF r.override = "unset" THEN named
        ELSE Put(named, "char_override", r.override = "true")

\* set_template: save_data(data)
TplGotData(w) ==
    /\ wpc[w] = "tpl_data"
    /\ wio[w] = "ret"
    /\ Locals(w, TemplateData(ret[w], req[w]), prev[w], upd[w], cur[w], req[w])
    /\ Goto(w, wop[w], "tpl_save")
    /\ CallSave(w, TemplateData(ret[w], req[w]))
    /\ UNCHANGED <<served, events, log, filevars, jobrest>>

ShouldTriggerWhenMissing(name, data) ==
    GameOf(name) # "" /\ ~CharlistExists(GameOf(name))

\* set_template: slug and (should_force or not _charlist_exists(slug))
ShouldTrigger(name, data) ==
    /\ GameOf(name) # ""
    /\ Get(data, "char_override", FALSE) \/ ~CharlistExists(GameOf(name))

\* set_template: the scraper thread is started when the template has a game slug
\* and the roster is missing or char_override is set
TplTrigger(w) ==
    /\ wpc[w] = "tpl_save"
    /\ wio[w] = "saved"
    /\ IF ShouldTrigger(req[w].name, doc[w])
       THEN StartThread(GameOf(req[w].name))
       ELSE UNCHANGED <<spc, sslug, inflight>>
    /\ Goto(w, wop[w], "tpl_publish")
    /\ NoCall(w)
    /\ UNCHANGED <<doc, prev, upd, cur, req>>
    /\ UNCHANGED <<served, events, log, filevars>>
    /\ UNCHANGED <<SCRAPER_LOCK, CHAR_SCRAPER_STATE, gamename_json, charfiles, now,
                   ran, guardSeen, readSlug, lastExit>>

\* set_template: socketio.emit('template_changed', {"template": name}), then the response
TplPublish(w) ==
    /\ wpc[w] = "tpl_publish"
    /\ events' = Append(events, TemplateEvent(req[w].name))
    /\ Respond(w, "ok")
    /\ UNCHANGED <<served, log, filevars, jobrest>>

\* an update_scoreboard sent to one subscriber only
PushEvent(d, sid) == [event |-> "update_scoreboard", doc |-> d, to |-> sid]

\* a client connects: role = _infer_role_from_headers()
OnConnect(w) ==
    /\ Accepts(w)
    /\ \E role \in Roles :
           Locals(w, EmptyDoc, EmptyDoc, EmptyDoc, EmptyDoc,
                  [NoRequest EXCEPT !.role = role, !.sid = served + 1])
    /\ Goto(w, "connect", "conn_push")
    /\ NoCall(w)
    /\ UNCHANGED <<events, log, filevars, jobrest>>

\* on_connect: an overlay is sent json.load(open(DATA_FILE)); a file that is
\* missing or does not load is logged and nothing is sent
ConnectPush(w) ==
    /\ wpc[w] = "conn_push"
    /\ events' = IF req[w].role = "overlay" /\ WellFormed(data_json)
                 THEN Append(events, PushEvent(Parse(data_json), req[w].sid))
                 ELSE events
    /\ Respond(w, "connected")
    /\ UNCHANGED <<served, log, filevars, jobrest>>

\* GET /data.json
ServeData(w) ==
    /\ Accepts(w)
    /\ Locals(w, EmptyDoc, EmptyDoc, EmptyDoc, EmptyDoc, NoRequest)
    /\ Goto(w, "serve", "serve_exists")
    /\ NoCall(w)
    /\ UNCHANGED <<events, log, filevars, jobrest>>

\* serve_data_json: if not os.path.exists(DATA_FILE): save_data({})
ServeExists(w) ==
    /\ wpc[w] = "serve_exists"
    /\ Goto(w, wop[w], "serve_send")
    /\ IF data_json.exists
       THEN UNCHANGED <<wio, ret, arg, wrote, attempt>>
       ELSE CallSave(w, EmptyDoc)
    /\ UNCHANGED <<doc, prev, upd, cur, req>>
    /\ UNCHANGED <<served, events, log, filevars, jobrest>>

\* serve_data_json: send_file(DATA_FILE, ...) reads the file itself
ServeSend(w) ==
    /\ wpc[w] = "serve_send"
    /\ wio[w] \in {"none", "saved"}
    /\ Respond(w, IF data_json.exists THEN "file" ELSE "error")
    /\ UNCHANGED <<served, events, log, filevars, jobrest>>

\* emit_data: prev = load_data() raised: except Exception: prev = {}
EmitPrevFailed(w) ==
    /\ wpc[w] = "emit_prev"
    /\ wio[w] = "raised"
    /\ Locals(w, doc[w], EmptyDoc, upd[w], cur[w], req[w])
    /\ Goto(w, wop[w], "sdp_current")
    /\ CallLoad(w)
    /\ UNCHANGED <<served, events, log, filevars, jobrest>>

\* any other load_data() that raised: the exception leaves the handler
LoadFailed(w) ==
    /\ wpc[w] # "emit_prev"
    /\ wio[w] = "raised"
    /\ Respond(w, "error")
    /\ UNCHANGED <<served, events, log, filevars, jobrest>>

StoreStep(w) ==
    \/ LoadExists(w)
    \/ LoadRead(w)
    \/ SaveOpen(w)
    \/ SaveWrite(w)
    \/ SaveReplace(w)

HandlerStep(w) ==
    \/ EmitData(w)
    \/ EmitGotPrev(w)
    \/ SdpGotCurrent(w)
    \/ Broadcast(w)
    \/ EmitDiff(w)
    \/ ResetStart(w)
    \/ ResetGotCurrent(w)
    \/ SetPort(w)
    \/ PortGotData(w)
    \/ PortSaved(w)
    \/ SetTemplate(w)
    \/ SatCheck(w)
    \/ SatGotData(w)
    \/ SatSaved(w)
    \/ TplGotData(w)
    \/ TplTrigger(w)
    \/ TplPublish(w)
    \/ OnConnect(w)
    \/ ConnectPush(w)
    \/ ServeData(w)
    \/ ServeExists(w)
    \/ ServeSend(w)

ScraperStep(t) ==
    \/ ScraperCheck(t)
    \/ WriteGamename(t)
    \/ TryAcquire(t)
    \/ DropUnlink(t)
    \/ MarkRunning(t)
    \/ EmitStarted(t)
    \/ TaskRead(t)
    \/ TaskFetch(t)
    \/ FinState(t)
    \/ FinEmit(t)
    \/ FinUnlink(t)
    \/ Release(t)

JobNext ==
    \/ Trigger
    \/ \E t \in Threads : ScraperStep(t)

StoreNext == \E w \in Workers : StoreStep(w) \/ HandlerStep(w)

Init == JobInit /\ StoreInit

Next == JobNext \/ StoreNext

\* the whole server
Spec == Init /\ [][Next]_vars

\* the job alone, its triggers fired by the environment
SpecJob == Init /\ [][JobNext]_vars

\* every started thread keeps being scheduled
FairSpecJob == SpecJob /\ \A t \in Threads : WF_vars(ScraperStep(t))

\* the request handlers and the store; started scraper threads do not run yet
SpecStore == Init /\ [][StoreNext]_vars

\* --------------------------------------------------- a damaged document file
\* data.json as the handlers may find it when the module is served without the
\* __main__ block, or after the file was edited: missing, cut short, not text
RecoveryFiles ==
    {NoFile, File(<<Undecodable>>)}
        \cup {File(<<Serialize(d)[1]>>) : d \in InitDocs}

RecoveryInit ==
    /\ JobInit
    /\ StoreIdle
    /\ data_json \in RecoveryFiles

\* the handlers that read the document without writing port or active_template
RecoveryStep(w) ==
    \/ StoreStep(w)
    \/ EmitData(w)
    \/ EmitGotPrev(w)
    \/ EmitPrevFailed(w)
    \/ SdpGotCurrent(w)
    \/ Broadcast(w)
    \/ EmitDiff(w)
    \/ LoadFailed(w)
    \/ OnConnect(w)
    \/ ConnectPush(w)
    \/ ServeData(w)
    \/ ServeExists(w)
    \/ ServeSend(w)

RecoveryNext == \E w \in Workers : RecoveryStep(w)

SpecRecovery == RecoveryInit /\ [][RecoveryNext]_vars

\* --------------------------------------------------- the diff on its own
\* a document made of the given parts, each holding at most one key
DocOf(p1, t2, st, c1, at, po) == p1 @@ t2 @@ st @@ c1 @@ at @@ po

Maybe(key, values) == {EmptyDoc} \cup {key :> v : v \in values}

\* documents _diff_payload is applied to: sections missing, empty, not a dict,
\* with fields missing, null, empty and set; tracked and untracked scalars
DiffDocs ==
    {DocOf(p1, t2, st, c1, at, po) :
        p1 \in Maybe("player1", {EmptyDoc, [name |-> ""], [name |-> None], [name |-> "Bob"],
                                 [name |-> "Bob", score |-> "1"],
                                 [name |-> "Bob", img |-> "img/ryu.png"], Scalar("x")}),
        t2 \in Maybe("team2", {[name |-> "Red", score |-> "0"]}),
        st \in Maybe("stage", {"", "Top 8"}),
        c1 \in Maybe("caster1", {[twitch |-> "c1"]}),
        at \in Maybe("active_template", {"sf6"}),
        po \in Maybe("port", {8008})}

\* what load_data may have returned as prev: a document, or a JSON list
DiffPrevs == DiffDocs \cup {Scalar("list")}

\* worker 1 is in emit_data, new_data persisted and broadcast, about to compute the diff
DiffInit ==
    /\ spc = [t \in Threads |-> "idle"]
    /\ sslug = [t \in Threads |-> ""]
    /\ SCRAPER_LOCK = NoThread
    /\ CHAR_SCRAPER_STATE = [running |-> FALSE, slug |-> "", started_at |-> 0]
    /\ gamename_json = Absent
    /\ charfiles = {}
    /\ now = 1
    /\ ran = [t \in Threads |-> 0]
    /\ guardSeen = [t \in Threads |-> "none"]
    /\ inflight = [t \in Threads |-> {}]
    /\ readSlug = [t \in Threads |-> ""]
    /\ lastExit = "none"
    /\ DATA_LOCK = NoWorker
    /\ data_tmp = NoFile
    /\ wop = [w \in Workers |-> IF w = 1 THEN "emit" ELSE "idle"]
    /\ wpc = [w \in Workers |-> IF w = 1 THEN "emit_diff" ELSE "idle"]
    /\ wio = [w \in Workers |-> "none"]
    /\ ret = [w \in Workers |-> EmptyDoc]
    /\ arg = [w \in Workers |-> EmptyDoc]
    /\ wrote = [w \in Workers |-> 0]
    /\ attempt = [w \in Workers |-> 0]
    /\ cur = [w \in Workers |-> EmptyDoc]
    /\ req = [w \in Workers |-> NoRequest]
    /\ wres = [w \in Workers |-> "none"]
    /\ served = 1
    /\ log = <<>>
    /\ \E p \in DiffPrevs, c \in DiffDocs :
        /\ prev = [w \in Workers |-> IF w = 1 THEN p ELSE EmptyDoc]
        /\ doc = [w \in Workers |-> IF w = 1 THEN c ELSE EmptyDoc]
        /\ upd = [w \in Workers |-> IF w = 1 THEN c ELSE EmptyDoc]
        /\ data_json = File(Serialize(c))
        /\ events = <<UpdateEvent(c)>>

DiffNext == \E w \in Workers : EmitDiff(w)

\* emit_data's diff step, over the documents of DiffPrevs and DiffDocs
SpecDiff == DiffInit /\ [][DiffNext]_vars

\* ------------------------------------------------------------ claims: the job
InBody(t) == spc[t] \in BodyPcs

Returned(t) == spc[t] = "done"

\* C1: at most one thread is between acquiring SCRAPER_LOCK and releasing it,
\* however many triggers fire and whatever their slugs.
C1_AtMostOneInBody ==
    Cardinality({t \in Threads : InBody(t)}) <= 1

\* C1 witness: one thread runs the task while another, fired concurrently, is turned away.
C1_Witness ==
    \E t, u \in Threads :
        /\ spc[t] = "task_fetch"
        /\ spc[u] = "drop_unlink"

\* only the two calls t and u were made, both reached the guard
OnlyPair(t, u) ==
    /\ t # u
    /\ \A v \in Threads \ {t, u} : spc[v] = "idle"
    /\ guardSeen[t] # "none"
    /\ guardSeen[u] # "none"

\* C2 as stated: two calls for the same key, the second started before the first
\* returned, end with exactly one execution of the task body between them.
C2_Original ==
    \A t, u \in Threads :
        (/\ OnlyPair(t, u)
         /\ t \in inflight[u]
         /\ sslug[t] = sslug[u]
         /\ Returned(t) /\ Returned(u))
        => ran[t] + ran[u] = 1

\* C2 amended: two calls for the same key, the second reaching the guard while the
\* first holds it: the second never runs the task body, the first runs it exactly once.
C2_OneExecution ==
    \A t, u \in Threads :
        (/\ OnlyPair(t, u)
         /\ sslug[t] = sslug[u]
         /\ guardSeen[t] = "free"
         /\ guardSeen[u] = "held")
        => /\ ran[u] = 0
           /\ ran[t] <= 1
           /\ (Returned(t) \/ spc[t] \in {"task_fetch", "fin_state"}) => ran[t] = 1

\* C2 witness: both calls for one key have returned, the second turned away at the guard.
C2_Witness ==
    \E t, u \in Threads :
        /\ OnlyPair(t, u)
        /\ sslug[t] = sslug[u]
        /\ guardSeen[t] = "free" /\ guardSeen[u] = "held"
        /\ Returned(t) /\ Returned(u)
        /\ ran[t] = 1

\* the job is idle again and the last emit call was the finished status of slug
IdleAfter(slug) ==
    /\ SCRAPER_LOCK = NoThread
    /\ ~CHAR_SCRAPER_STATE.running
    /\ events # <<>>
    /\ events[Len(events)] = StatusEvent(FALSE, slug)

\* C3: every accepted job returns to idle: the lock is released, running is false
\* and the finished status was emitted last, whether the task succeeded, exited
\* non-zero or raised, and whether the emits failed.
C3_AcceptedJobReturnsToIdle ==
    \A t \in Threads :
        (SCRAPER_LOCK = t) ~> (Returned(t) /\ IdleAfter(sslug[t]))

\* C3 witness: a job whose task raised is over and the job is idle.
C3_Witness ==
    \E t \in Threads :
        /\ Returned(t)
        /\ ran[t] = 1
        /\ lastExit = "raise"
        /\ IdleAfter(sslug[t])

\* thread t takes a step of the branch of a failed acquire
DiscardStep(t) ==
    /\ spc[t] \in {"acquire", "drop_unlink"}
    /\ spc'[t] # spc[t]
    /\ guardSeen'[t] = "held"

C5_AcceptedAfterFailure ==
    [][\A t \in Threads :
          /\ (/\ lastExit = "nonzero"
              /\ \A u \in Threads : ~InBody(u)
              /\ sslug[t] # CHAR_SCRAPER_STATE.slug
              /\ spc[t] = "acquire" /\ spc'[t] # "acquire")
             => /\ ~CHAR_SCRAPER_STATE.running
                /\ SCRAPER_LOCK' = t
                /\ spc'[t] = "mark"
          /\ (spc[t] = "mark" /\ spc'[t] # "mark")
             => /\ CHAR_SCRAPER_STATE'.running
                /\ CHAR_SCRAPER_STATE'.slug = sslug[t]
                /\ spc'[t] = "emit_start"
          /\ (spc[t] = "emit_start" /\ spc'[t] # "emit_start")
             => spc'[t] = "task_read"]_vars

\* C5 witness: a job for another key is in the task body after a job that exited non-zero.
C5_Witness ==
    \E t, u \in Threads :
        /\ Returned(u) /\ ran[u] = 1
        /\ lastExit = "nonzero"
        /\ sslug[t] # sslug[u]
        /\ spc[t] = "task_read"
        /\ CHAR_SCRAPER_STATE.running
        /\ CHAR_SCRAPER_STATE.slug = sslug[t]

\* ------------------------------------------------------------ claims: the store
\* the document data.json holds
Persisted == Parse(data_json)

\* worker w's save_data replaces DATA_FILE in this step
Replaces(w) == wio[w] = "sv_write" /\ wio'[w] = "saved"

\* worker w's load_data returns what it read in this step
Reads(w) == wio[w] = "ld_read" /\ wio'[w] = "ret"

\* C6: data.json always holds one complete document; it changes only when a
\* save_data replaces it with the complete document it was given; and a load_data
\* that finds the file returns the document the file holds: never a part of one,
\* never a mix of two.
C6_LoadSeesOneCompleteSave ==
    /\ WellFormed(data_json)
    /\ [][/\ WellFormed(data_json')
          /\ data_json' # data_json =>
                \E w \in Workers :
                    /\ Replaces(w)
                    /\ data_json' = File(Serialize(arg[w]))
          /\ \A w \in Workers :
                Reads(w) => /\ ret'[w] = Persisted
                            /\ data_json = File(Serialize(ret'[w]))]_vars

\* C6 witness: a load_data has returned a document stored by a save_data while
\* another save_data is writing its temp file.
C6_Witness ==
    \E w, x \in Workers :
        /\ wio[w] = "ret"
        /\ ret[w] \notin InitDocs
        /\ ret[w] = Persisted
        /\ wio[x] = "sv_write" /\ wrote[x] = 1

\* worker w is in save_data_preserving, its load_data done, its save_data not yet
BetweenLoadAndSave(w) ==
    /\ wop[w] \in {"emit"} \cup ResetKinds
    /\ \/ wpc[w] = "sdp_current" /\ wio[w] = "ret"
       \/ wpc[w] = "sdp_save" /\ wio[w] \in {"sv_open", "sv_write"}

\* what that load_data returned
LoadedBySdp(w) == IF wpc[w] = "sdp_current" THEN ret[w] ELSE cur[w]

\* C7: between the load_data of a save_data_preserving call and its save_data no
\* other operation's save_data takes effect: the document on disk is still the
\* one that was loaded.
C7_Original ==
    \A w \in Workers : BetweenLoadAndSave(w) => Persisted = LoadedBySdp(w)

\* C8: once port and active_template are persisted, no save_data of an Update or
\* of a reset changes them.
C8_Original ==
    [][\A w \in Workers :
          (Replaces(w) /\ wop[w] \in {"emit"} \cup ResetKinds) =>
              \A k \in {"port", "active_template"} :
                  Has(Persisted, k) => /\ Has(Persisted', k)
                                       /\ Persisted'[k] = Persisted[k]]_vars

\* C9: a save_data_preserving that loaded the document still on disk persists, for
\* each preserved key of that document, the document's value, and for every other
\* key the value update had when it was passed; it persists no other key.
C9_PreservingSave ==
    [][\A w \in Workers :
          (/\ Replaces(w)
           /\ wpc[w] = "sdp_save"
           /\ cur[w] = Persisted)
          => /\ DOMAIN Persisted' =
                    DOMAIN upd[w] \cup ({"port", "active_template"} \cap DOMAIN cur[w])
             /\ \A k \in DOMAIN Persisted' :
                    Persisted'[k] = IF k \in {"port", "active_template"} /\ Has(cur[w], k)
                                    THEN cur[w][k] ELSE upd[w][k]]_vars

\* C9 witness: the document held port 9000, update came with port 1234, port 9000 is persisted.
C9_Witness ==
    \E w \in Workers :
        /\ wpc[w] = "sdp_save" /\ wio[w] = "saved"
        /\ Has(upd[w], "port") /\ upd[w]["port"] = 1234
        /\ Has(cur[w], "port") /\ cur[w]["port"] = 9000
        /\ Has(Persisted, "port") /\ Persisted["port"] = 9000

\* worker w takes a step of its handler or of its StateStore call
StepBy(w) == <<wpc[w], wio[w], wrote[w], attempt[w]>>' # <<wpc[w], wio[w], wrote[w], attempt[w]>>

\* there is no folder templates/<name>
FolderMissing(name) == name # "" /\ name \notin TemplateFolders

\* C10: a template switch that names a missing folder ends with an error response
\* in its next step, and changes neither data.json nor its temp file, starts no
\* scraper thread and emits no event.
C10_UnknownTemplateRejected ==
    [][\A w \in Workers :
          (/\ wop[w] = "set_template"
           /\ FolderMissing(req[w].name)
           /\ StepBy(w))
          => /\ wop'[w] = "idle"
             /\ wres'[w] = "error"
             /\ wpc[w] = "sat_check"
             /\ UNCHANGED <<data_json, data_tmp, events, spc, sslug>>]_vars

\* C10 witness: a switch to a missing folder was answered with an error, the
\* document still names the template it named, nothing was emitted or started.
C10_Witness ==
    \E w \in Workers :
        /\ wres[w] = "error"
        /\ served = 1
        /\ Persisted \in InitDocs
        /\ events = <<>>
        /\ \A t \in Threads : spc[t] = "idle"

\* ------------------------------------------------------------ claims: the diff
\* the dict sections _diff_payload describes, the piece that names each in the
\* result, and their tracked fields
TrackedSections ==
    LET player == {"name", "id", "clan", "wl", "score", "character", "img"}
        team == {"name", "score", "img"}
        caster == {"name", "twitch", "twitter"}
    IN  {[key |-> "player1", mark |-> "[yellow]Player 1[/yellow]", fields |-> player],
         [key |-> "player2", mark |-> "[yellow]Player 2[/yellow]", fields |-> player],
         [key |-> "team1", mark |-> "[yellow]Team 1[/yellow]", fields |-> team],
         [key |-> "team2", mark |-> "[yellow]Team 2[/yellow]", fields |-> team],
         [key |-> "caster1", mark |-> "[yellow]Caster 1[/yellow]", fields |-> caster],
         [key |-> "caster2", mark |-> "[yellow]Caster 2[/yellow]", fields |-> caster]}

\* the scalar sections and the piece that names each in the result
TrackedScalars ==
    {[key |-> "stage", mark |-> "Event Stage:"],
     [key |-> "match_type", mark |-> "Match Type:"],
     [key |-> "toptext", mark |-> "Top Text:"],
     [key |-> "ui_scale", mark |-> "UI scale:"],
     [key |-> "active_template", mark |-> "Active template:"]}

\* the value of field f of section key in document d; None when the section or
\* the field is missing, or the section is not a dict
FieldOf(d, key, f) ==
    IF ~Has(d, key) THEN None
    ELSE IF ~IsDict(d[key]) THEN None
    ELSE IF ~Has(d[key], f) THEN None
    ELSE d[key][f]

ScalarOf(d, key) == IF Has(d, key) THEN d[key] ELSE None

SectionDiffers(p, c, sec) == \E f \in sec.fields : FieldOf(p, sec.key, f) # FieldOf(c, sec.key, f)

ScalarDiffers(p, c, sca) == ScalarOf(p, sca.key) # ScalarOf(c, sca.key)

Mentions(text, mark) == \E i \in 1..Len(text) : text[i] = mark

\* worker w runs the diff step of emit_data on two documents
DiffStep(w) ==
    /\ wpc[w] = "emit_diff"
    /\ wpc'[w] # "emit_diff"
    /\ IsDict(prev[w])
    /\ IsDict(doc[w])

\* the diff the step logged; the empty text when it logged nothing
LoggedDiff == IF log' = log THEN <<>> ELSE log'[Len(log')]

\* C12: the diff of prev and curr names a section exactly when a tracked field of
\* that section differs between them (a missing field counting as null); it
\* is empty, and nothing is logged, when prev and curr are the same document; and
\* it is not empty when a field changed to the empty string.
C12_DiffMentionsChangedSections ==
    [][\A w \in Workers :
          DiffStep(w) =>
              /\ \A sec \in TrackedSections :
                     Mentions(LoggedDiff, sec.mark) <=> SectionDiffers(prev[w], doc[w], sec)
              /\ \A sca \in TrackedScalars :
                     Mentions(LoggedDiff, sca.mark) <=> ScalarDiffers(prev[w], doc[w], sca)
              /\ prev[w] = doc[w] => log' = log
              /\ (\E sec \in TrackedSections : \E f \in sec.fields :
                     /\ FieldOf(doc[w], sec.key, f) = ""
                     /\ FieldOf(prev[w], sec.key, f) # "") => log' # log]_vars

\* C12 witness: a diff was logged that names Player 1, whose name went from Bob to
\* empty or missing, and Event Stage, and names neither Team 2 nor Active template.
C12_Witness ==
    /\ log # <<>>
    /\ Mentions(log[1], "[yellow]Player 1[/yellow]")
    /\ Mentions(log[1], "Name:")
    /\ Mentions(log[1], "Bob")
    /\ Mentions(log[1], "[bright_black]None[/bright_black]")
    /\ Mentions(log[1], "Event Stage:")
    /\ ~Mentions(log[1], "[yellow]Team 2[/yellow]")
    /\ ~Mentions(log[1], "Active template:")

\* ------------------------------------------------------------ claims: diff failure
\* C14: the diff step of an Update whose _diff_payload raises still ends the
\* request with success, and leaves data.json and the broadcasts as they are.
C14_Original ==
    [][\A w \in Workers :
          (/\ wpc[w] = "emit_diff"
           /\ wpc'[w] # "emit_diff"
           /\ DiffRaises(prev[w], doc[w]))
          => /\ wres'[w] = "ok"
             /\ data_json' = data_json
             /\ events' = events]_vars

\* ------------------------------------------------------------ claims: set-port
InvalidPort(p) == p < 1 \/ p > 65535

\* C11: a set-port request with an invalid value never writes data.json and
\* ends with an error response.
C11_Original ==
    [][\A w \in Workers :
          (/\ wop[w] = "set_port"
           /\ InvalidPort(req[w].port)
           /\ StepBy(w))
          => /\ data_json' = data_json
             /\ wop'[w] = "idle" => wres'[w] = "error"]_vars

\* ------------------------------------------------------------ claims: connect
\* what load_data would return for the file as it is
LoadWouldReturn == IF WellFormed(data_json) THEN Parse(data_json) ELSE EmptyDoc

\* C13: on_connect sends an overlay exactly one update_scoreboard, carrying the
\* document load_data would return (the empty document when there is no
\* file), and sends the other roles nothing.
C13_Original ==
    [][\A w \in Workers :
          (wpc[w] = "conn_push" /\ StepBy(w))
          => events' = IF req[w].role = "overlay"
                       THEN Append(events, PushEvent(LoadWouldReturn, req[w].sid))
                       ELSE events]_vars

\* ------------------------------------------------------------ claims: load_data
\* C15: every load_data call ends by returning a document to its caller: the
\* parsed file, or the empty document after at most MaxAttempts failed attempts.
C15_Original ==
    [][\A w \in Workers :
          (wio[w] \in {"ld_exists", "ld_read"} /\ StepBy(w))
          => /\ wio'[w] \in {"ld_read", "ret"}
             /\ attempt'[w] <= MaxAttempts
             /\ wio'[w] = "ret" =>
                   ret'[w] = IF WellFormed(data_json) THEN Parse(data_json) ELSE EmptyDoc]_vars

OpensDocumentFile(w) ==
    /\ StepBy(w)
    /\ \/ wio[w] = "ld_read"
       \/ Replaces(w)
       \/ wpc[w] = "conn_push" /\ req[w].role = "overlay"
       \/ wpc[w] = "serve_send"

\* worker w is inside load_data or save_data
InStateStore(w) == wio[w] \in {"ld_exists", "ld_read", "sv_open", "sv_write"}

\* C17: DATA_FILE is opened only inside load_data and save_data.
C17_Original ==
    [][\A w \in Workers : OpensDocumentFile(w) => InStateStore(w)]_vars

\* ------------------------------------------------------------ claims: templates
\* C18: the persisted active_template always names a folder that holds a template.html.
C18_Original ==
    Has(Persisted, "active_template") => Persisted["active_template"] \in TemplateHtml

\* C19: the save_data of an Update whose fragment carried active_template leaves
\* the persisted active_template as it was, present or absent.
C19_Original ==
    [][\A w \in Workers :
          (/\ Replaces(w)
           /\ wop[w] = "emit"
           /\ Has(req[w].body, "active_template"))
          => /\ Has(Persisted', "active_template") <=> Has(Persisted, "active_template")
             /\ Has(Persisted, "active_template") =>
                   Persisted'["active_template"] = Persisted["active_template"]]_vars

\* ------------------------------------------------------------ claims: the Update
\* the positions of emit_data, in the order the handler passes them
EmitOrder == <<"emit_prev", "sdp_current", "sdp_save", "emit_diff", "idle">>

\* C20: an Update reads prev, then persists, then broadcasts, then diffs: its
\* save_data replaces data.json with the document it was given before anything is
\* broadcast; the broadcast follows the replace and carries that same document,
\* with the port and active_template save_data_preserving loaded; the audit line
\* is written only after the broadcast.
C20_PersistBroadcastDiff ==
    [][\A w \in Workers :
          wop[w] = "emit" =>
              /\ wpc'[w] # wpc[w] =>
                    \E i \in 1..(Len(EmitOrder) - 1) :
                        wpc[w] = EmitOrder[i] /\ wpc'[w] = EmitOrder[i + 1]
              /\ Replaces(w) =>
                    /\ wpc[w] = "sdp_save"
                    /\ data_json' = File(Serialize(arg[w]))
                    /\ arg'[w] = arg[w]
                    /\ events' = events
              /\ (wpc[w] = "sdp_save" /\ wpc'[w] = "emit_diff") =>
                    /\ wio[w] = "saved"
                    /\ events' = Append(events, UpdateEvent(arg[w]))
                    /\ \A k \in {"port", "active_template"} :
                           Has(cur[w], k) => Has(arg[w], k) /\ arg[w][k] = cur[w][k]
                    /\ log' = log
              /\ (wpc[w] # "emit_diff" /\ StepBy(w)) => log' = log]_vars

\* C20 witness: an Update is at its diff, its document persisted and broadcast
\* last, with the port and active_template of the document it loaded.
C20_Witness ==
    \E w \in Workers :
        /\ wop[w] = "emit" /\ wpc[w] = "emit_diff"
        /\ Has(req[w].body, "port")
        /\ events # <<>>
        /\ events[Len(events)] = UpdateEvent(Persisted)
        /\ Persisted = doc[w]
        /\ Has(Persisted, "port") /\ Persisted["port"] = 8008
        /\ Has(Persisted, "active_template") /\ Persisted["active_template"] = "default"

\* ------------------------------------------------------------ claims: job status
\* the charlist_status emits, in order
StatusEvents == SelectSeq(events, LAMBDA e : e.event = "charlist_status")

\* C22: the charlist_status emits come in pairs, a started (running, k) followed by
\* the finished (not running, k) of the same job, with no other job's emit in
\* between; CHAR_SCRAPER_STATE is running with key k before the started emit, the
\* started emit is the last one while the task body runs, and the finished emit
\* comes after the task body.
C22_StatusAlternates ==
    /\ \A i \in 1..Len(StatusEvents) :
          IF i % 2 = 1
          THEN /\ StatusEvents[i].running
               /\ i < Len(StatusEvents) =>
                     /\ ~StatusEvents[i + 1].running
                     /\ StatusEvents[i + 1].slug = StatusEvents[i].slug
          ELSE ~StatusEvents[i].running
    /\ \A t \in Threads :
          /\ spc[t] = "emit_start" =>
                /\ Len(StatusEvents) % 2 = 0
                /\ CHAR_SCRAPER_STATE.running
                /\ CHAR_SCRAPER_STATE.slug = sslug[t]
          /\ spc[t] \in {"task_read", "task_fetch", "fin_state", "fin_emit"} =>
                /\ Len(StatusEvents) % 2 = 1
                /\ StatusEvents[Len(StatusEvents)].slug = sslug[t]
          /\ spc[t] \in {"fin_unlink", "release"} =>
                /\ Len(StatusEvents) % 2 = 0
                /\ StatusEvents[Len(StatusEvents)].slug = sslug[t]
                /\ ran[t] = 1

\* C22 witness: two jobs for different keys have run one after the other, each
\* with its started and its finished emit.
C22_Witness ==
    /\ Len(StatusEvents) = 4
    /\ StatusEvents[1].slug # StatusEvents[3].slug
    /\ StatusEvents[1].running /\ ~StatusEvents[2].running
    /\ StatusEvents[3].running /\ ~StatusEvents[4].running
    /\ \A t \in Threads : Returned(t)

\* C24: from the acquire of an accepted job until its task body reads
\* gamename.json, the file names the job's key.
C24_Original ==
    \A t \in Threads :
        (SCRAPER_LOCK = t /\ spc[t] \in {"mark", "emit_start", "task_read"})
        => gamename_json = sslug[t]

\* C25: CHAR_SCRAPER_STATE.running is false exactly when SCRAPER_LOCK is free.
C25_Original ==
    ~CHAR_SCRAPER_STATE.running <=> SCRAPER_LOCK = NoThread

\* ------------------------------------------------------------ failing reads
\* Updates and set-port on a document file whose open can fail
FaultStep(w) ==
    \/ StoreStep(w)
    \/ LoadReadFails(w)
    \/ EmitData(w)
    \/ EmitGotPrev(w)
    \/ SdpGotCurrent(w)
    \/ Broadcast(w)
    \/ EmitDiff(w)
    \/ SetPort(w)
    \/ PortGotData(w)
    \/ PortSaved(w)

FaultNext == \E w \in Workers : FaultStep(w)

SpecFaults == Init /\ [][FaultNext]_vars

\* ------------------------------------------------------------ claims: template switch
\* the positions of set_template, in the order the handler passes them
SwitchOrder == <<"sat_check", "sat_data", "sat_save", "tpl_data", "tpl_save",
                 "tpl_publish", "idle">>

\* a scraper thread is started for slug in this step
Started(slug) ==
    \E t \in Threads : spc[t] = "idle" /\ spc'[t] = "check" /\ sslug'[t] = slug

\* C21: a template switch that passed the folder check starts a scraper thread for
\* the template's game slug exactly when the slug is not empty and the roster
\* file is missing or the document it stored has char_override set; it starts no
\* other thread; each of its save_data calls stores the requested name as
\* active_template and comes before the template_changed emit, which is made
\* whether or not a thread was started.
C21_SwitchTriggersJob ==
    [][\A w \in Workers :
          wop[w] = "set_template" =>
              /\ (wpc'[w] # wpc[w] /\ wpc[w] # "sat_check") =>
                    \E i \in 1..(Len(SwitchOrder) - 1) :
                        wpc[w] = SwitchOrder[i] /\ wpc'[w] = SwitchOrder[i + 1]
              /\ Replaces(w) =>
                    /\ Persisted'["active_template"] = req[w].name
                    /\ events' = events
              /\ (wpc[w] = "tpl_save" /\ wpc'[w] = "tpl_publish") =>
                    LET slug == IF req[w].name = "sf6" THEN "sf6" ELSE ""
                        flag == Has(arg[w], "char_override") /\ arg[w]["char_override"]
                    IN  /\ Started(slug) <=> (slug # "" /\ (slug \notin charfiles \/ flag))
                        /\ ~Started(slug) => UNCHANGED <<spc, sslug>>
                        /\ events' = events
              /\ wpc[w] = "tpl_publish" /\ StepBy(w) =>
                    /\ events' = Append(events, TemplateEvent(req[w].name))
                    /\ wres'[w] = "ok"
              /\ (wpc[w] # "tpl_save" /\ StepBy(w)) => UNCHANGED <<spc, sslug>>]_vars

\* C21 witness: two switches were published; one started a thread for sf6, whose
\* roster exists, because char_override was set; the other started none.
C21_Witness ==
    /\ Len(events) = 2
    /\ \A i \in 1..2 : events[i].event = "template_changed"
    /\ "sf6" \in charfiles
    /\ Cardinality({t \in Threads : spc[t] = "check" /\ sslug[t] = "sf6"}) = 1
    /\ \E t \in Threads : spc[t] = "idle"
    /\ \A w \in Workers : wop[w] = "idle" /\ wres[w] = "ok"

\* ------------------------------------------------------------ claims: resets
\* the save_data of worker w's reset replaces data.json, which still holds the
\* document the reset loaded as current and save_data_preserving loaded again
ResetUndisturbed(w) ==
    /\ Replaces(w)
    /\ wop[w] \in ResetKinds
    /\ prev[w] = Persisted
    /\ cur[w] = Persisted

ScoreboardSections == {"player1", "player2", "team1", "team2", "caster1", "caster2"}

ScoreboardTexts == {"stage", "match_type", "toptext"}

KeptByResetAll == {"ui_scale", "char_override", "port", "active_template"}

\* C23: a reset run without interference changes only its own sections:
\* reset-players writes the cleared player1 and player2 and leaves every other key
\* as persisted; reset-teams likewise for team1 and team2; reset-all persists the
\* cleared scoreboard sections and texts and, of the other keys, exactly
\* ui_scale, char_override, port and active_template with their persisted values;
\* each then broadcasts the document it persisted.
C23_ResetFrame ==
    [][\A w \in Workers :
          /\ (ResetUndisturbed(w) /\ wop[w] = "reset_players") =>
                /\ DOMAIN Persisted' = DOMAIN Persisted \cup {"player1", "player2"}
                /\ \A k \in DOMAIN Persisted \ {"player1", "player2"} :
                       Persisted'[k] = Persisted[k]
                /\ \A k \in {"player1", "player2"} : \A f \in DOMAIN Persisted'[k] :
                       Persisted'[k][f] \in {"", "0"}
          /\ (ResetUndisturbed(w) /\ wop[w] = "reset_teams") =>
                /\ DOMAIN Persisted' = DOMAIN Persisted \cup {"team1", "team2"}
                /\ \A k \in DOMAIN Persisted \ {"team1", "team2"} :
                       Persisted'[k] = Persisted[k]
                /\ \A k \in {"team1", "team2"} : \A f \in DOMAIN Persisted'[k] :
                       Persisted'[k][f] \in {"", "0"}
          /\ (ResetUndisturbed(w) /\ wop[w] = "reset_all") =>
                /\ DOMAIN Persisted' = ScoreboardSections \cup ScoreboardTexts
                                           \cup (KeptByResetAll \cap DOMAIN Persisted)
                /\ \A k \in KeptByResetAll \cap DOMAIN Persisted :
                       Persisted'[k] = Persisted[k]
                /\ \A k \in ScoreboardTexts : Persisted'[k] = ""
                /\ \A k \in ScoreboardSections : \A f \in DOMAIN Persisted'[k] :
                       Persisted'[k][f] \in {"", "0"}
          /\ (wop[w] \in ResetKinds /\ wpc[w] = "sdp_save" /\ wop'[w] = "idle") =>
                /\ wio[w] = "saved"
                /\ events' = Append(events, UpdateEvent(arg[w]))
                /\ wres'[w] = "ok"]_vars

\* C23 witness: a reset-all has run alone: the players are cleared, team1 is
\* cleared, ui_scale, port and active_template are as before, and the
\* persisted document was broadcast.
C23_Witness ==
    /\ \A w \in Workers : wop[w] = "idle"
    /\ served = 1
    /\ events = <<UpdateEvent(Persisted)>>
    /\ Persisted["player1"] = ClearedPlayer
    /\ Persisted["team1"] = ClearedTeam
    /\ Persisted["toptext"] = ""
    /\ Persisted["ui_scale"] = "1.0"
    /\ Persisted["port"] = 8008
    /\ Persisted["active_template"] = "default"

\* ------------------------------------------------------------ claims: broadcast order
\* every request served so far was an Update or a reset, and all have broadcast
\* and returned
OnlyUpdatesDone ==
    /\ \A w \in Workers : wop[w] = "idle"
    /\ served >= 1
    /\ Len(events) = served
    /\ \A i \in 1..Len(events) :
          events[i].event = "update_scoreboard" /\ "to" \notin DOMAIN events[i]

\* C26: once all Updates and resets have completed, the document broadcast last is
\* the persisted document.
C26_Original ==
    OnlyUpdatesDone => events[Len(events)].doc = Persisted

\* ------------------------------------------------------------ claims: dedicated operations
\* a set-port that stored a new port and a template switch have both reported success
PortAndSwitchDone ==
    /\ \A w \in Workers : wop[w] = "idle"
    /\ served = 2
    /\ \E w, x \in Workers : wres[w] = "saved" /\ wres[x] = "ok"
    /\ Len(events) = 1
    /\ events[1].event = "template_changed"

\* C27: after a set-port and a template switch that both reported success, data.json
\* holds the new port and the new active_template.
C27_Original ==
    PortAndSwitchDone =>
        /\ Persisted["port"] = 9000
        /\ Persisted["active_template"] = events[1].template

\* ------------------------------------------------------------ claims: replace, not merge
\* C28: the save_data of an Update that loaded the document still on disk persists
\* exactly the keys of the submitted fragment other than active_template,
\* together with port and active_template where the document had them; any other
\* key the document had and the fragment lacks is gone, and the keys the fragment
\* brought, other than port, carry the fragment's values.
C28_UpdateReplaces ==
    [][\A w \in Workers :
          (/\ Replaces(w)
           /\ wop[w] = "emit"
           /\ cur[w] = Persisted)
          => LET frag == req[w].body
                 kept == {"port", "active_template"} \cap DOMAIN Persisted
             IN  /\ DOMAIN Persisted' = (DOMAIN frag \ {"active_template"}) \cup kept
                 /\ \A k \in DOMAIN Persisted \ (DOMAIN frag \cup kept) :
                        ~Has(Persisted', k)
                 /\ \A k \in DOMAIN frag \ {"port", "active_template"} :
                        Persisted'[k] = frag[k]]_vars

\* C28 witness: an Update has run alone on a document with team1 and ui_scale; its
\* fragment had neither, and the persisted document has neither, but has the
\* port and active_template of before.
C28_Witness ==
    /\ served = 1
    /\ \E w \in Workers : wop[w] = "emit" /\ wpc[w] = "emit_diff"
    /\ ~Has(Persisted, "team1")
    /\ ~Has(Persisted, "ui_scale")
    /\ Persisted["player1"] = [name |-> "Alice"]
    /\ Persisted["port"] = 8008
    /\ Persisted["active_template"] = "default"

\* ------------------------------------------------------------ claims: degraded load
\* worker w is about to save a document built on a load_data that fell back to the
\* empty document: the load inside save_data_preserving, or the load of set-port
LoadedEmpty(w) ==
    \/ wop[w] = "emit" /\ wpc[w] = "sdp_save" /\ cur[w] = EmptyDoc
    \/ wop[w] = "set_port" /\ wpc[w] = "port_save" /\ DOMAIN doc[w] = {"port"}

\* C29: a save_data that follows a load_data degraded to the empty document, on a
\* file that holds port and active_template, persists a document that still has
\* the previous active_template and, unless the operation is set-port, the
\* previous port.
C29_Original ==
    [][\A w \in Workers :
          (/\ Replaces(w)
           /\ LoadedEmpty(w)
           /\ Has(Persisted, "port")
           /\ Has(Persisted, "active_template"))
          => /\ Has(Persisted', "active_template")
             /\ Persisted'["active_template"] = Persisted["active_template"]
             /\ Has(Persisted', "port")
             /\ wop[w] = "emit" => Persisted'["port"] = Persisted["port"]]_vars

====
